---- MODULE Spec2Model ----
(***************************************************************************)
(* repo_walker: the command-line run of src/main.rs (filesystem walk and   *)
(* two-revision diff), the OutputFormatter of src/output/mod.rs with its   *)
(* directory tree, the filter predicates of src/file_utils/content.rs and  *)
(* the comment stripper of src/parser/mod.rs.                              *)
(*                                                                         *)
(* Strings are sequences of one-character strings, so that extensions,     *)
(* lower-casing, line splitting and regex matching are computed.  An       *)
(* Option is a sequence of length 0 (None) or 1 (Some).                    *)
(***************************************************************************)
EXTENDS Integers, Sequences, FiniteSets, TLC

VARIABLES
    argv,        \* the command line given to the binary
    pc,          \* position of main / print_git_diff
    pattern,     \* Option<Regex> compiled from args.pattern
    extensions,  \* Option<Vec<String>>, lower-cased
    walker,      \* entries the WalkBuilder iterator still has to yield
    changes,     \* Vec<Change> still to be processed (diff mode)
    refs,        \* the repository's references: name -> kind of object
    odb,         \* the object database: oid -> Option<blob bytes>
    stdout,      \* lines written to standard output
    stderr,      \* lines written to standard error
    exit_code,   \* -1 while running, then the process exit code
    entry_no,    \* number of walker entries / changes taken so far
    seen,        \* history: the entries / changes taken, in order
    calls,       \* history: the process_change invocations, in order
    resolved,    \* history: the revision names handed to find_tag
    fmt,         \* the OutputFormatter
    given,       \* history: the arguments of with_extensions / with_excludes
    fcalls,      \* number of OutputFormatter print_* calls so far
    strip_comments, \* the formatter's strip-comments flag
    q            \* the query of the filter-predicate specification

vars == <<argv, pc, pattern, extensions, walker, changes, refs, odb, stdout,
          stderr, exit_code, entry_no, seen, calls, resolved, fmt, given,
          fcalls, strip_comments, q>>

runVars == <<argv, pc, pattern, extensions, walker, changes, refs, odb,
             exit_code, entry_no, seen, calls, resolved>>
fmtVars == <<fmt, given, fcalls, strip_comments>>

----------------------------------------------------------------------------
(* Bounds *)

MaxEntries == 2   \* entries yielded by one filesystem walk
MaxChanges == 2   \* changes recorded by one tree diff
MaxCalls == 3     \* OutputFormatter print_* calls in one formatter life

----------------------------------------------------------------------------
(* Strings *)

None == <<>>
Some(x) == <<x>>
IsSome(o) == Len(o) = 1
Unwrap(o) == o[1]

Range(s) == {s[i] : i \in 1..Len(s)}

UpperChars == <<"A","B","C","D","E","F","G","H","I","J","K","L","M",
                "N","O","P","Q","R","S","T","U","V","W","X","Y","Z">>
LowerChars == <<"a","b","c","d","e","f","g","h","i","j","k","l","m",
                "n","o","p","q","r","s","t","u","v","w","x","y","z">>

\* char::to_lowercase on the ASCII letters
LowerChar(c) ==
    IF \E i \in 1..26 : UpperChars[i] = c
    THEN LowerChars[CHOOSE i \in 1..26 : UpperChars[i] = c]
    ELSE c

\* str::to_lowercase
to_lowercase(s) == [i \in 1..Len(s) |-> LowerChar(s[i])]

\* index of the last occurrence of c in s, 0 when there is none
LastIndexOf(s, c) ==
    IF \E i \in 1..Len(s) : s[i] = c
    THEN CHOOSE i \in 1..Len(s) : s[i] = c /\ \A j \in (i+1)..Len(s) : s[j] # c
    ELSE 0

\* index of the first occurrence of c in s at or after from, 0 when none
FirstIndexFrom(s, c, from) ==
    IF \E i \in from..Len(s) : s[i] = c
    THEN CHOOSE i \in from..Len(s) : s[i] = c /\ \A j \in from..(i-1) : s[j] # c
    ELSE 0

\* Path::file_name: the last component of the path, None for ".."
file_name(path) ==
    LET slash == LastIndexOf(path, "/")
        name == SubSeq(path, slash + 1, Len(path))
    IN  IF name = <<>> \/ name = <<".", ".">> THEN None ELSE Some(name)

\* Path::extension: the part of the file name after its last '.', None when
\* the name has no '.' or only a leading one
path_extension(path) ==
    IF ~IsSome(file_name(path)) THEN None
    ELSE LET name == Unwrap(file_name(path))
             dot == LastIndexOf(name, ".")
         IN  IF dot = 0 \/ dot = 1 THEN None
             ELSE Some(SubSeq(name, dot + 1, Len(name)))

\* .and_then(|os_str| os_str.to_str()).unwrap_or("")
extension_or_empty(path) ==
    IF IsSome(path_extension(path)) THEN Unwrap(path_extension(path)) ELSE <<>>

\* str::lines: split at '\n', a trailing '\r' of a line is dropped, a final
\* '\n' opens no further line
RECURSIVE LinesFrom(_, _)
LinesFrom(s, start) ==
    IF start > Len(s) THEN <<>>
    ELSE LET nl == FirstIndexFrom(s, "\n", start)
             stop == IF nl = 0 THEN Len(s) ELSE nl - 1
             raw == SubSeq(s, start, stop)
             line == IF Len(raw) > 0 /\ raw[Len(raw)] = "\r"
                     THEN SubSeq(raw, 1, Len(raw) - 1) ELSE raw
         IN  IF nl = 0 THEN <<line>> ELSE <<line>> \o LinesFrom(s, nl + 1)

str_lines(s) == LinesFrom(s, 1)

----------------------------------------------------------------------------
(* Regular expressions: literal characters and '.', which matches every    *)
(* character but '\n'; a '(' opens a group that nothing closes, so a        *)
(* pattern holding one does not compile.                                    *)

RegexNew(p) == IF "(" \in Range(p) THEN None ELSE Some(p)

is_match(re, s) ==
    \E i \in 1..(Len(s) - Len(re) + 1) :
        \A j \in 1..Len(re) :
            \/ re[j] = s[i + j - 1]
            \/ re[j] = "." /\ s[i + j - 1] # "\n"

----------------------------------------------------------------------------
(* Filter predicates *)

BinaryExtensions ==
    { <<"j","p","g">>, <<"j","p","e","g">>, <<"p","n","g">>, <<"g","i","f">>,
      <<"b","m","p">>, <<"t","i","f","f">>, <<"p","d","f">>, <<"d","o","c">>,
      <<"d","o","c","x">>, <<"x","l","s">>, <<"x","l","s","x">>,
      <<"p","p","t">>, <<"p","p","t","x">>, <<"z","i","p">>, <<"t","a","r">>,
      <<"g","z">>, <<"7","z">>, <<"r","a","r">>, <<"e","x","e">>,
      <<"d","l","l">>, <<"s","o">>, <<"d","y","l","i","b">>, <<"m","p","3">>,
      <<"m","p","4">>, <<"a","v","i">>, <<"m","o","v">>, <<"f","l","v">>,
      <<"d","b">>, <<"s","q","l","i","t","e">> }

\* is_likely_binary: the lower-cased extension is one of the binary suffixes
is_likely_binary(path) ==
    to_lowercase(extension_or_empty(path)) \in BinaryExtensions

\* file_extension_matches: some allowed extension equals the path's extension
file_extension_matches(path, exts) ==
    \E i \in 1..Len(exts) : exts[i] = extension_or_empty(path)

\* |exts| exts.into_iter().map(|e| e.to_lowercase()).collect()
lowercase_all(exts) == [i \in 1..Len(exts) |-> to_lowercase(exts[i])]

\* OutputFormatter::should_include_file, on the formatter f
should_include_file(f, path) ==
    /\ IsSome(f.extensions) =>
          \E i \in 1..Len(Unwrap(f.extensions)) :
              Unwrap(f.extensions)[i] = to_lowercase(extension_or_empty(path))
    /\ IsSome(f.excludes) =>
          ~\E i \in 1..Len(Unwrap(f.excludes)) :
              is_match(Unwrap(f.excludes)[i], path)

----------------------------------------------------------------------------
(* Output lines.  Every line is a record of one shape: kind names the      *)
(* println! that wrote it, the other fields carry its arguments; src is the *)
(* number of the walker entry, change or formatter call that wrote it       *)
(* (0: none).                                                               *)

Line(kind, path, num, text, mark, src) ==
    [kind |-> kind, path |-> path, num |-> num, text |-> text,
     mark |-> mark, src |-> src]

Plain(kind, src) == Line(kind, <<>>, 0, <<>>, FALSE, src)

----------------------------------------------------------------------------
(* The inputs of a run: command lines, walks of the file system, the       *)
(* repository's references, object database and tree diff.                  *)

P_rs == <<"a", ".", "r", "s">>
P_RS == <<"A", ".", "R", "S">>
P_png == <<"l", ".", "p", "n", "g">>
P_md == <<"g", ".", "m", "d">>
P_mk == <<"m", "k">>

CommandLines ==
    [ pattern       : {None, Some(<<"a">>), Some(<<"(", "a">>)},
      extensions    : {None, Some(<< <<"r", "s">> >>),
                       Some(<< <<"R", "S">>, <<"m", "d">> >>)},
      context_lines : {0, 1},
      git_from      : {None, Some("v1")},
      git_to        : {None, Some("HEAD")},
      excludes      : {None, Some(<< <<"g">> >>)} ]

FileEntry(path, readable, contents) ==
    [kind |-> "file", path |-> path, readable |-> readable,
     contents |-> contents]

WalkEntries ==
    { FileEntry(P_rs, TRUE, <<"b", "\n", "a", "\n", "b">>),
      FileEntry(P_RS, TRUE, <<"a">>),
      FileEntry(P_png, TRUE, <<"a">>),
      FileEntry(P_mk, TRUE, <<>>),
      FileEntry(P_md, TRUE, <<"a", "b", "\n">>),
      FileEntry(<<"x", ".", "r", "s">>, FALSE, <<>>),
      [kind |-> "dir", path |-> <<"s">>, readable |-> TRUE, contents |-> <<>>],
      [kind |-> "err", path |-> <<>>, readable |-> FALSE, contents |-> <<>>] }

\* the walks: sequences of entries of pairwise different paths
Walks ==
    { w \in UNION {[1..n -> WalkEntries] : n \in 0..MaxEntries} :
        \A i, j \in 1..Len(w) : i # j => w[i].path # w[j].path }

RevNames == {"v1", "HEAD"}
RefKinds == {"commit", "tag", "blob", "missing"}
RefTables == [RevNames -> RefKinds]

Oids == 1..3
OdbTables ==
    { (1 :> Some(<<"h", "i", "\n">>)) @@ (2 :> Some(<<"a", "\n", "\n", "0xFF", "b">>))
        @@ (3 :> None),
      (1 :> Some(<<>>)) @@ (2 :> Some(<<"a", "b">>))
        @@ (3 :> Some(<<"b", "\n", "a", "\n">>)) }

Change(kind, path, oid, previous_oid) ==
    [kind |-> kind, path |-> path, oid |-> oid, previous_oid |-> previous_oid]

ChangeSet ==
    { Change("Addition", P_rs, 1, 0),
      Change("Addition", P_png, 2, 0),
      Change("Addition", P_mk, 3, 0),
      Change("Deletion", P_md, 1, 0),
      Change("Deletion", P_RS, 3, 0),
      Change("Modification", P_rs, 2, 1),
      Change("Modification", P_md, 3, 1),
      Change("Modification", P_png, 1, 3) }

\* the tree diffs: one change per changed path
ChangeLists ==
    { c \in UNION {[1..n -> ChangeSet] : n \in 0..MaxChanges} :
        \A i, j \in 1..Len(c) : i # j => c[i].path # c[j].path }

----------------------------------------------------------------------------
(* Printing of src/main.rs *)

\* print_file_contents (main.rs): heading, fence, the contents, fence, blank
print_file_contents(path, contents, src) ==
    << Line("FileHeading", path, 0, <<>>, FALSE, src),
       Plain("Fence", src),
       Line("Body", <<>>, 0, contents, FALSE, src),
       Plain("Fence", src),
       Plain("Blank", src) >>

\* usize::MAX, at 31 bits
UsizeMax == 2147483647

\* a + b on usize: whether it overflows, and the wrapped sum that a build
\* without overflow checks goes on with
usize_add(a, b) ==
    [overflow |-> a > UsizeMax - b,
     value |-> IF a > UsizeMax - b THEN a - (UsizeMax - b) - 1 ELSE a + b]

\* i + context_lines + 1
window_end(i, context_lines) ==
    LET first == usize_add(i, context_lines)
        second == usize_add(first.value, 1)
    IN  [overflow |-> first.overflow \/ second.overflow,
         value |-> second.value]

\* the block print_file_contents_with_context prints for a match on the line
\* of zero-based index i, the sums wrapping
MatchBlock(lines, i, context_lines, src) ==
    LET start == IF i >= context_lines THEN i - context_lines ELSE 0
        end == IF window_end(i, context_lines).value <= Len(lines)
               THEN window_end(i, context_lines).value ELSE Len(lines)
        window == [j \in 1..(end - start) |->
                     Line("Context", <<>>, start + j, lines[start + j],
                          start + j = i + 1, src)]
    IN  << Line("MatchAt", <<>>, i + 1, <<>>, FALSE, src), Plain("Fence", src) >>
        \o window
        \o << Plain("Fence", src), Plain("Captured", src), Plain("Blank", src) >>

RECURSIVE MatchBlocksFrom(_, _, _, _, _)
MatchBlocksFrom(lines, i, regex, context_lines, src) ==
    IF i >= Len(lines) THEN <<>>
    ELSE (IF is_match(regex, lines[i + 1])
          THEN MatchBlock(lines, i, context_lines, src) ELSE <<>>)
         \o MatchBlocksFrom(lines, i + 1, regex, context_lines, src)

\* print_file_contents_with_context: the heading, then one block per line
\* the regex matches
print_file_contents_with_context(path, contents, regex, context_lines, src) ==
    << Line("FileHeading", path, 0, <<>>, FALSE, src) >>
    \o MatchBlocksFrom(str_lines(contents), 0, regex, context_lines, src)

HexOf(b) ==
    CASE b = "a" -> <<"6", "1">>
      [] b = "b" -> <<"6", "2">>
      [] b = "h" -> <<"6", "8">>
      [] b = "i" -> <<"6", "9">>
      [] b = "0xFF" -> <<"f", "f">>
      [] OTHER -> <<"0", "a">>

RECURSIVE hex_encode(_)
hex_encode(bytes) ==
    IF bytes = <<>> THEN <<>> ELSE HexOf(Head(bytes)) \o hex_encode(Tail(bytes))

\* std::str::from_utf8 succeeds
from_utf8_ok(bytes) == "0xFF" \notin Range(bytes)

RECURSIVE BlobLinesFrom_StopsAtNonUtf8(_, _, _, _, _)
BlobLinesFrom_StopsAtNonUtf8(content, start, prefix, pat, src) ==
    IF start > Len(content) THEN <<>>
    ELSE LET nl == FirstIndexFrom(content, "\n", start)
             end == IF nl = 0 THEN Len(content) + 1 ELSE nl
             line == SubSeq(content, start, end - 1)
         IN  IF ~from_utf8_ok(line)
             THEN << Line("NonUtf8", <<>>, 0, <<prefix>> \o hex_encode(line),
                          FALSE, src) >>
             ELSE (IF IsSome(pat) /\ ~is_match(Unwrap(pat), line)
                   THEN <<>>
                   ELSE << Line("DiffLine", <<>>, 0, <<prefix>> \o line,
                                FALSE, src) >>)
                  \o BlobLinesFrom_StopsAtNonUtf8(content, end + 1, prefix,
                                                  pat, src)

\* the loop of print_file_content over the blob bytes, from the one-based
\* offset start
RECURSIVE BlobLinesFrom(_, _, _, _, _)
BlobLinesFrom(content, start, prefix, pat, src) ==
    IF start > Len(content) THEN <<>>
    ELSE LET nl == FirstIndexFrom(content, "\n", start)
             end == IF nl = 0 THEN Len(content) + 1 ELSE nl
             line == SubSeq(content, start, end - 1)
             out == IF from_utf8_ok(line)
                    THEN IF IsSome(pat) /\ ~is_match(Unwrap(pat), line)
                         THEN <<>>
                         ELSE << Line("DiffLine", <<>>, 0, <<prefix>> \o line,
                                      FALSE, src) >>
                    ELSE << Line("NonUtf8", <<>>, 0,
                                 <<prefix>> \o hex_encode(line), FALSE, src) >>
         IN  out \o BlobLinesFrom(content, end + 1, prefix, pat, src)

\* print_file_content: Err when the object is not found, else the lines
print_file_content(db, oid, prefix, pat, src) ==
    IF ~IsSome(db[oid])
    THEN [ok |-> FALSE, out |-> <<>>]
    ELSE [ok |-> TRUE,
          out |-> BlobLinesFrom(Unwrap(db[oid]), 1, prefix, pat, src)]

\* process_change: the extension filter, the OID lines, the fenced content
process_change(db, path, exts, pat, oid, prefix, previous_oid, src) ==
    IF IsSome(exts) /\ ~file_extension_matches(path, Unwrap(exts))
    THEN [ok |-> TRUE, out |-> <<>>]
    ELSE LET head == << Line("OID", <<>>, oid, <<>>, FALSE, src) >>
                     \o (IF previous_oid # 0
                         THEN << Line("PreviousOID", <<>>, previous_oid, <<>>,
                                      FALSE, src) >>
                         ELSE <<>>)
                     \o << Plain("FenceDiff", src) >>
             body == print_file_content(db, oid, prefix, pat, src)
         IN  IF body.ok
             THEN [ok |-> TRUE,
                   out |-> head \o body.out
                           \o << Plain("Fence", src), Plain("Blank", src) >>]
             ELSE [ok |-> FALSE, out |-> head]

----------------------------------------------------------------------------
(* The run of the binary: main and print_git_diff of src/main.rs *)

fmtIdle == /\ fmt = [total_tokens |-> 0, extensions |-> None, excludes |-> None]
           /\ given = [extensions |-> None, excludes |-> None]
           /\ fcalls = 0
           /\ strip_comments = FALSE
           /\ q = <<>>

Init ==
    /\ argv \in CommandLines
    /\ pc = "start"
    /\ pattern = None
    /\ extensions = None
    /\ walker = <<>>
    /\ changes = <<>>
    /\ refs = [r \in RevNames |-> "missing"]
    /\ odb = [o \in Oids |-> None]
    /\ stdout = <<>>
    /\ stderr = <<>>
    /\ exit_code = -1
    /\ entry_no = 0
    /\ seen = <<>>
    /\ calls = <<>>
    /\ resolved = <<>>
    /\ fmtIdle

\* the process ends with the code, after writing the message to stderr
Exit(code, message) ==
    /\ pc' = "exited"
    /\ exit_code' = code
    /\ stderr' = Append(stderr, Plain(message, 0))

\* Args::parse() on main.rs's Args, which declares no --excludes, and the
\* choice of the mode
ParseArgs ==
    /\ pc = "start"
    /\ IF IsSome(argv.excludes)
       THEN Exit(2, "UnexpectedArgument")
       ELSE /\ pc' = IF IsSome(argv.git_from) \/ IsSome(argv.git_to)
                     THEN "git_diff" ELSE "main_setup"
            /\ UNCHANGED <<exit_code, stderr>>
    /\ UNCHANGED <<argv, pattern, extensions, walker, changes, refs, odb,
                   stdout, entry_no, seen, calls, resolved, fmtVars, q>>

\* main: the pattern is compiled (an error returns from main), the
\* extensions are lower-cased, the walker is built
MainSetup ==
    /\ pc = "main_setup"
    /\ IF IsSome(argv.pattern) /\ ~IsSome(RegexNew(Unwrap(argv.pattern)))
       THEN /\ Exit(1, "RegexError")
            /\ UNCHANGED <<pattern, extensions, walker>>
       ELSE /\ pattern' = IF IsSome(argv.pattern)
                          THEN RegexNew(Unwrap(argv.pattern)) ELSE None
            /\ extensions' = IF IsSome(argv.extensions)
                             THEN Some(lowercase_all(Unwrap(argv.extensions)))
                             ELSE None
            /\ \E w \in Walks : walker' = w
            /\ pc' = "walk"
            /\ UNCHANGED <<exit_code, stderr>>
    /\ UNCHANGED <<argv, changes, refs, odb, stdout, entry_no, seen, calls,
                   resolved, fmtVars, q>>

\* main's loop without the is_likely_binary test
WalkOutput_NoBinaryCheck(e, exts, pat, context_lines, src) ==
    IF e.kind = "err"
    THEN [out |-> <<>>, err |-> << Plain("WalkError", src) >>]
    ELSE IF e.kind # "file"
    THEN [out |-> <<>>, err |-> <<>>]
    ELSE IF IsSome(exts) /\ ~file_extension_matches(e.path, Unwrap(exts))
    THEN [out |-> <<>>, err |-> <<>>]
    ELSE IF ~e.readable
    THEN [out |-> <<>>,
          err |-> << Line("ErrorReadingFile", e.path, 0, <<>>, FALSE, src) >>]
    ELSE IF e.contents = <<>>
    THEN [out |-> <<>>, err |-> <<>>]
    ELSE IF IsSome(pat)
    THEN [out |-> print_file_contents_with_context(
                      e.path, e.contents, Unwrap(pat), context_lines, src),
          err |-> <<>>]
    ELSE [out |-> print_file_contents(e.path, e.contents, src), err |-> <<>>]

\* what one iteration of main's loop writes for the entry e
WalkOutput(e, exts, pat, context_lines, src) ==
    IF e.kind = "err"
    THEN [out |-> <<>>, err |-> << Plain("WalkError", src) >>]
    ELSE IF e.kind # "file"
    THEN [out |-> <<>>, err |-> <<>>]
    ELSE IF IsSome(exts) /\ ~file_extension_matches(e.path, Unwrap(exts))
    THEN [out |-> <<>>, err |-> <<>>]
    ELSE IF is_likely_binary(e.path)
    THEN [out |-> <<>>, err |-> <<>>]
    ELSE IF ~e.readable
    THEN [out |-> <<>>,
          err |-> << Line("ErrorReadingFile", e.path, 0, <<>>, FALSE, src) >>]
    ELSE IF e.contents = <<>>
    THEN [out |-> <<>>, err |-> <<>>]
    ELSE IF IsSome(pat)
    THEN [out |-> print_file_contents_with_context(
                      e.path, e.contents, Unwrap(pat), context_lines, src),
          err |-> <<>>]
    ELSE [out |-> print_file_contents(e.path, e.contents, src), err |-> <<>>]

\* one iteration of `for result in walker`
WalkEntry ==
    /\ pc = "walk"
    /\ walker # <<>>
    /\ LET e == Head(walker)
           w == WalkOutput(e, extensions, pattern, argv.context_lines,
                           entry_no + 1)
       IN  /\ stdout' = stdout \o w.out
           /\ stderr' = stderr \o w.err
           /\ seen' = Append(seen, e)
    /\ walker' = Tail(walker)
    /\ entry_no' = entry_no + 1
    /\ UNCHANGED <<argv, pc, pattern, extensions, changes, refs, odb,
                   exit_code, calls, resolved, fmtVars, q>>

\* the walker is exhausted: main returns Ok(())
MainReturn ==
    /\ pc = "walk"
    /\ walker = <<>>
    /\ pc' = "exited"
    /\ exit_code' = 0
    /\ UNCHANGED <<argv, pattern, extensions, walker, changes, refs, odb,
                   stdout, stderr, entry_no, seen, calls, resolved, fmtVars, q>>


\* repo(&args.path)?: the repository is opened, or print_git_diff returns Err
GitDiffOpen ==
    /\ pc = "git_diff"
    /\ \E opened \in BOOLEAN :
         IF opened
         THEN /\ \E t \in RefTables : refs' = t
              /\ \E d \in OdbTables : odb' = d
              /\ pc' = "git_header"
              /\ UNCHANGED <<exit_code, stderr>>
         ELSE /\ Exit(1, "OpenError")
              /\ UNCHANGED <<refs, odb>>
    /\ UNCHANGED <<argv, pattern, extensions, walker, changes, stdout,
                   entry_no, seen, calls, resolved, fmtVars, q>>

\* println!("### Git diff from {} to {}", git_from.unwrap(), git_to.unwrap()):
\* unwrap of an absent side panics before anything is written
GitDiffHeader ==
    /\ pc = "git_header"
    /\ IF IsSome(argv.git_from) /\ IsSome(argv.git_to)
       THEN /\ stdout' = Append(stdout, Plain("GitDiffHeading", 0))
            /\ pc' = "find_from"
            /\ UNCHANGED <<exit_code, stderr>>
       ELSE /\ Exit(101, "PanicUnwrapNone")
            /\ UNCHANGED stdout
    /\ UNCHANGED <<argv, pattern, extensions, walker, changes, refs, odb,
                   entry_no, seen, calls, resolved, fmtVars, q>>

\* find_tag succeeds on a reference to a commit or to a tag
find_tag_ok(table, name) == table[name] \in {"commit", "tag"}

\* let from_obj = find_tag(&repo, git_from)?
FindFrom ==
    /\ pc = "find_from"
    /\ resolved' = Append(resolved, Unwrap(argv.git_from))
    /\ IF find_tag_ok(refs, Unwrap(argv.git_from))
       THEN pc' = "find_to" /\ UNCHANGED <<exit_code, stderr>>
       ELSE Exit(1, "RevisionError")
    /\ UNCHANGED <<argv, pattern, extensions, walker, changes, refs, odb,
                   stdout, entry_no, seen, calls, fmtVars, q>>

\* let to_obj = find_tag(&repo, git_to)?
FindTo ==
    /\ pc = "find_to"
    /\ resolved' = Append(resolved, Unwrap(argv.git_to))
    /\ IF find_tag_ok(refs, Unwrap(argv.git_to))
       THEN pc' = "diff_trees" /\ UNCHANGED <<exit_code, stderr>>
       ELSE Exit(1, "RevisionError")
    /\ UNCHANGED <<argv, pattern, extensions, walker, changes, refs, odb,
                   stdout, entry_no, seen, calls, fmtVars, q>>

\* find_tree of both sides and diff_tags: the changes, or Err
DiffTrees ==
    /\ pc = "diff_trees"
    /\ \E diffed \in BOOLEAN :
         IF diffed
         THEN /\ \E c \in ChangeLists : changes' = c
              /\ pc' = "git_setup"
              /\ UNCHANGED <<exit_code, stderr>>
         ELSE /\ Exit(1, "DiffError")
              /\ UNCHANGED changes
    /\ UNCHANGED <<argv, pattern, extensions, walker, refs, odb, stdout,
                   entry_no, seen, calls, resolved, fmtVars, q>>

\* args.pattern.map(|p| Regex::new(p).unwrap()) and the lower-cased extensions
GitDiffSetup ==
    /\ pc = "git_setup"
    /\ IF IsSome(argv.pattern) /\ ~IsSome(RegexNew(Unwrap(argv.pattern)))
       THEN /\ Exit(101, "PanicRegexUnwrap")
            /\ UNCHANGED <<pattern, extensions>>
       ELSE /\ pattern' = IF IsSome(argv.pattern)
                          THEN RegexNew(Unwrap(argv.pattern)) ELSE None
            /\ extensions' = IF IsSome(argv.extensions)
                             THEN Some(lowercase_all(Unwrap(argv.extensions)))
                             ELSE None
            /\ pc' = "changes"
            /\ UNCHANGED <<exit_code, stderr>>
    /\ UNCHANGED <<argv, walker, changes, refs, odb, stdout, entry_no, seen,
                   calls, resolved, fmtVars, q>>

Call(src, path, oid, prefix, previous_oid) ==
    [src |-> src, path |-> path, oid |-> oid, prefix |-> prefix,
     previous_oid |-> previous_oid]

\* the arms of `match change` with the new side of a Modification first
ChangeCalls_NewFirst(c, src) ==
    IF c.kind = "Addition" THEN << Call(src, c.path, c.oid, "+", 0) >>
    ELSE IF c.kind = "Deletion" THEN << Call(src, c.path, c.oid, "-", 0) >>
    ELSE << Call(src, c.path, c.oid, "+", c.previous_oid),
            Call(src, c.path, c.previous_oid, "-", 0) >>

\* the process_change invocations of one arm of `match change`
ChangeCalls(c, src) ==
    IF c.kind = "Addition" THEN << Call(src, c.path, c.oid, "+", 0) >>
    ELSE IF c.kind = "Deletion" THEN << Call(src, c.path, c.oid, "-", 0) >>
    ELSE << Call(src, c.path, c.previous_oid, "-", 0),
            Call(src, c.path, c.oid, "+", c.previous_oid) >>

\* the stderr line of a failed process_change invocation
ChangeError(c, call) ==
    Line(IF c.kind = "Addition" THEN "ErrorAddition"
         ELSE IF c.kind = "Deletion" THEN "ErrorDeletion"
         ELSE IF call.prefix = "-" THEN "ErrorModificationOld"
         ELSE "ErrorModificationNew",
         c.path, 0, <<>>, FALSE, call.src)

\* what the invocations cs of the change c write, in order
RECURSIVE RunCalls(_, _, _, _, _)
RunCalls(c, cs, db, exts, pat) ==
    IF cs = <<>> THEN [out |-> <<>>, err |-> <<>>]
    ELSE LET k == Head(cs)
             r == process_change(db, k.path, exts, pat, k.oid, k.prefix,
                                 k.previous_oid, k.src)
             rest == RunCalls(c, Tail(cs), db, exts, pat)
         IN  [out |-> r.out \o rest.out,
              err |-> (IF r.ok THEN <<>> ELSE << ChangeError(c, k) >>)
                      \o rest.err]

\* one iteration of `for change in changes`
ProcessNextChange ==
    /\ pc = "changes"
    /\ changes # <<>>
    /\ LET c == Head(changes)
           cs == ChangeCalls(c, entry_no + 1)
           r == RunCalls(c, cs, odb, extensions, pattern)
       IN  /\ stdout' = stdout \o r.out
           /\ stderr' = stderr \o r.err
           /\ calls' = calls \o cs
           /\ seen' = Append(seen, c)
    /\ changes' = Tail(changes)
    /\ entry_no' = entry_no + 1
    /\ UNCHANGED <<argv, pc, pattern, extensions, walker, refs, odb,
                   exit_code, resolved, fmtVars, q>>

\* the changes are exhausted: print_git_diff returns Ok(())
GitDiffReturn ==
    /\ pc = "changes"
    /\ changes = <<>>
    /\ pc' = "exited"
    /\ exit_code' = 0
    /\ UNCHANGED <<argv, pattern, extensions, walker, changes, refs, odb,
                   stdout, stderr, entry_no, seen, calls, resolved, fmtVars, q>>

Next ==
    \/ ParseArgs
    \/ MainSetup
    \/ WalkEntry
    \/ MainReturn
    \/ GitDiffOpen
    \/ GitDiffHeader
    \/ FindFrom
    \/ FindTo
    \/ DiffTrees
    \/ GitDiffSetup
    \/ ProcessNextChange
    \/ GitDiffReturn

Spec == Init /\ [][Next]_vars

----------------------------------------------------------------------------
(* Properties of the run *)

DiffMode == IsSome(argv.git_from) \/ IsSome(argv.git_to)

Finished == pc = "exited" /\ exit_code = 0

\* the stdout lines written for the entry or change number i
LinesOf(i) == SelectSeq(stdout, LAMBDA l : l.src = i)

\* a per-file section naming the path has been printed
SectionNames(path) ==
    \E k \in 1..Len(stdout) :
        stdout[k].kind \in {"FileHeading", "FileSection"} /\ stdout[k].path = path

\* the filter configuration the command line asks for
CompiledExcludes(patterns) ==
    [i \in 1..Len(patterns) |-> Unwrap(RegexNew(patterns[i]))]

FilterConfig(args) ==
    [extensions |-> IF IsSome(args.extensions)
                    THEN Some(lowercase_all(Unwrap(args.extensions)))
                    ELSE None,
     excludes |-> IF IsSome(args.excludes)
                  THEN Some(CompiledExcludes(Unwrap(args.excludes)))
                  ELSE None]

\* the path fails the extension filter, the binary-suffix heuristic or an
\* exclude regex of the command line
FailsAFilter(args, path) ==
    \/ ~should_include_file(FilterConfig(args), path)
    \/ is_likely_binary(path)

IncludedByWalk(path) ==
    /\ IsSome(extensions) => file_extension_matches(path, Unwrap(extensions))
    /\ ~is_likely_binary(path)

\* C3: in diff mode nothing is printed for a change whose path fails the
\* extension filter, the binary-suffix heuristic or an exclude regex, and a
\* change is printed iff filesystem mode would include its path.
C3_DiffFiltersLikeWalk ==
    DiffMode =>
        \A i \in 1..Len(seen) :
            /\ FailsAFilter(argv, seen[i].path) => LinesOf(i) = <<>>
            /\ (LinesOf(i) # <<>>) <=> IncludedByWalk(seen[i].path)

\* the positions of the process_change invocations of the change number i
CallsOf(i) == {k \in 1..Len(calls) : calls[k].src = i}

\* the positions of the stdout lines of the change number i
PositionsOf(i) == {k \in 1..Len(stdout) : stdout[k].src = i}

\* C4: every Modification produces exactly two records, the old side
\* (prefix '-', previous object id) directly before the new side (prefix
\* '+', current object id, carrying the previous object id), and in the
\* output the old side's lines precede the new side's, with no line of
\* another change in between.
C4_ModificationOldThenNew ==
    DiffMode =>
        \A i \in 1..Len(seen) :
            seen[i].kind = "Modification" =>
                LET c == seen[i]
                    L == LinesOf(i)
                IN  /\ \E k \in 1..(Len(calls) - 1) :
                          /\ CallsOf(i) = {k, k + 1}
                          /\ calls[k] = Call(i, c.path, c.previous_oid, "-", 0)
                          /\ calls[k + 1] =
                                 Call(i, c.path, c.oid, "+", c.previous_oid)
                    /\ \A a, b \in PositionsOf(i) :
                          \A m \in a..b : m \in PositionsOf(i)
                    /\ L # <<>> =>
                          \E m \in 2..(Len(L) - 1) :
                              /\ L[1].kind = "OID" /\ L[1].num = c.previous_oid
                              /\ L[m].kind = "OID" /\ L[m].num = c.oid
                              /\ L[m + 1].kind = "PreviousOID"
                              /\ L[m + 1].num = c.previous_oid
                              /\ \A n \in 2..Len(L) :
                                    /\ L[n].kind = "OID" => n = m
                                    /\ L[n].kind \in {"DiffLine", "NonUtf8"} =>
                                          L[n].text[1] =
                                              (IF n < m THEN "-" ELSE "+")

\* C4 witness: a finished diff of two changes printed both sides of a
\* Modification, each with a content line.
C4_Witness ==
    /\ DiffMode /\ Finished /\ Len(seen) = 2
    /\ \E i \in 1..Len(seen) :
         /\ seen[i].kind = "Modification"
         /\ \E a, b \in 1..Len(LinesOf(i)) :
              /\ LinesOf(i)[a].kind = "DiffLine" /\ LinesOf(i)[a].text[1] = "-"
              /\ LinesOf(i)[b].kind = "DiffLine" /\ LinesOf(i)[b].text[1] = "+"

KindPositions(kind) == {k \in 1..Len(stdout) : stdout[k].kind = kind}

\* C5: a successful filesystem-mode run prints the header first, then the
\* directory structure, then the per-file sections, and the summary last;
\* header and summary exactly once.
C5_PartsInOrder ==
    (~DiffMode /\ Finished) =>
        /\ Cardinality(KindPositions("SnapshotHeader")) = 1
        /\ Cardinality(KindPositions("SummaryTotal")) = 1
        /\ stdout[1].kind = "SnapshotHeader"
        /\ stdout[Len(stdout)].kind = "SummaryTotal"
        /\ \E d \in KindPositions("DirectoryHeading") :
              \A k \in KindPositions("FileHeading") \cup
                       KindPositions("FileSection") : d < k

\* C6: diff mode is entered iff --git-from or --git-to is given, and a run
\* given only one of them takes HEAD for the other: it never fails on the
\* omitted side and hands both revisions to the resolver.
C6_MissingSideIsHead ==
    /\ pc \in {"git_diff", "git_header", "find_from", "find_to", "diff_trees",
               "git_setup", "changes"} => DiffMode
    /\ pc \in {"main_setup", "walk"} => ~DiffMode
    /\ \A k \in 1..Len(stderr) : stderr[k].kind # "PanicUnwrapNone"
    /\ pc \in {"diff_trees", "git_setup", "changes"} =>
          resolved = << IF IsSome(argv.git_from) THEN Unwrap(argv.git_from)
                        ELSE "HEAD",
                        IF IsSome(argv.git_to) THEN Unwrap(argv.git_to)
                        ELSE "HEAD" >>

ConfigurationErrors ==
    {"OpenError", "RevisionError", "RegexError", "PanicRegexUnwrap"}

\* C8: a run that fails with a configuration error (unopenable repository,
\* unresolvable revision, invalid regex) exits non-zero and has written
\* nothing to standard output.
C8_NoOutputBeforeConfigurationError ==
    (pc = "exited" /\ \E k \in 1..Len(stderr) :
                          stderr[k].kind \in ConfigurationErrors)
        => exit_code # 0 /\ stdout = <<>>

PerEntryErrors ==
    {"WalkError", "ErrorReadingFile", "ErrorAddition", "ErrorDeletion",
     "ErrorModificationOld", "ErrorModificationNew"}

\* the entry or change number i fails: an error of the walker, a file that
\* passes the filters and cannot be read, a change that passes the filter
\* and names a blob the object database does not hold
EntryFails(i) ==
    IF DiffMode
    THEN /\ IsSome(extensions) =>
                file_extension_matches(seen[i].path, Unwrap(extensions))
         /\ \/ ~IsSome(odb[seen[i].oid])
            \/ seen[i].kind = "Modification" /\ ~IsSome(odb[seen[i].previous_oid])
    ELSE \/ seen[i].kind = "err"
         \/ /\ seen[i].kind = "file" /\ ~seen[i].readable
            /\ IncludedByWalk(seen[i].path)

\* C9: a per-entry error never stops the run: it is reported on stderr, the
\* entry produces no section, the later entries are still processed and the
\* run ends successfully.
C9_PerEntryErrorsAreSkipped ==
    /\ \A i \in 1..Len(seen) :
          EntryFails(i) =>
              /\ \E k \in 1..Len(stderr) :
                    stderr[k].kind \in PerEntryErrors /\ stderr[k].src = i
              /\ LinesOf(i) = <<>>
    /\ (\E i \in 1..Len(seen) : EntryFails(i)) =>
          /\ pc \in {"walk", "changes", "exited"}
          /\ pc = "exited" =>
                /\ exit_code = 0 /\ walker = <<>> /\ changes = <<>>
                /\ entry_no = Len(seen)

----------------------------------------------------------------------------
(* The OutputFormatter of src/output/mod.rs *)

runIdle ==
    /\ argv = [pattern |-> None, extensions |-> None, context_lines |-> 0,
               git_from |-> None, git_to |-> None, excludes |-> None]
    /\ pc = "idle"
    /\ pattern = None
    /\ extensions = None
    /\ walker = <<>>
    /\ changes = <<>>
    /\ refs = [r \in RevNames |-> "missing"]
    /\ odb = [o \in Oids |-> None]
    /\ exit_code = -1
    /\ entry_no = 0
    /\ seen = <<>>
    /\ calls = <<>>
    /\ resolved = <<>>

\* the arguments of the builder and print calls
ExtensionLists == { << <<"r", "s">> >>, << <<"R", "S">>, <<"m", "d">> >> }
ExcludeLists ==
    { << <<"g">> >>, << <<"(">> >>, << <<"(">>, <<"g">> >>, << <<"a", ".">> >> }
FmtPaths == {P_rs, P_RS, P_png, P_md}
FmtContents ==
    { <<"a", "b">>, <<"b", "\n", "a", "b", "\n">>, <<"b", "a">> }

\* OutputFormatter::new()
InitFmt ==
    /\ fmt = [total_tokens |-> 0, extensions |-> None, excludes |-> None]
    /\ given = [extensions |-> None, excludes |-> None]
    /\ fcalls = 0
    /\ strip_comments = FALSE
    /\ stdout = <<>>
    /\ stderr = <<>>
    /\ q = <<>>
    /\ runIdle

\* with_extensions: the extensions, lower-cased
with_extensions ==
    /\ fcalls = 0
    /\ ~IsSome(given.extensions)
    /\ \E exts \in ExtensionLists :
         /\ fmt' = [fmt EXCEPT !.extensions = Some(lowercase_all(exts))]
         /\ given' = [given EXCEPT !.extensions = Some(exts)]
    /\ UNCHANGED <<runVars, stdout, stderr, fcalls, strip_comments, q>>

\* .filter_map(|pattern| Regex::new(&pattern).ok()).collect()
RECURSIVE compile_excludes(_)
compile_excludes(patterns) ==
    IF patterns = <<>> THEN <<>>
    ELSE RegexNew(Head(patterns)) \o compile_excludes(Tail(patterns))

\* with_excludes: the patterns that compile
with_excludes ==
    /\ fcalls = 0
    /\ ~IsSome(given.excludes)
    /\ \E patterns \in ExcludeLists :
         /\ fmt' = [fmt EXCEPT !.excludes = Some(compile_excludes(patterns))]
         /\ given' = [given EXCEPT !.excludes = Some(patterns)]
    /\ UNCHANGED <<runVars, stdout, stderr, fcalls, strip_comments, q>>

\* print_header: banner, "Repository Snapshot: name @ sha", banner
print_header ==
    /\ fcalls < MaxCalls
    /\ fcalls' = fcalls + 1
    /\ stdout' = stdout \o << Plain("Banner", fcalls + 1),
                              Plain("SnapshotHeader", fcalls + 1),
                              Plain("Banner", fcalls + 1) >>
    /\ UNCHANGED <<runVars, stderr, fmt, given, strip_comments, q>>

\* count_tokens: the length of the encoding of the text, here under an
\* encoding whose one merge joins an 'a' with the 'b' that follows it
RECURSIVE count_tokens(_)
count_tokens(text) ==
    IF text = <<>> THEN 0
    ELSE IF Len(text) >= 2 /\ text[1] = "a" /\ text[2] = "b"
    THEN 1 + count_tokens(SubSeq(text, 3, Len(text)))
    ELSE 1 + count_tokens(Tail(text))

\* the numbered body lines of print_file_contents
NumberedLines(contents, src) ==
    LET lines == str_lines(contents)
    IN  [i \in 1..Len(lines) |-> Line("Numbered", <<>>, i, lines[i], FALSE, src)]

\* print_file_contents counting the tokens before the filter is consulted
file_contents_CountsSkipped(f, path, contents, src) ==
    LET tokens == count_tokens(contents)
        counted == [f EXCEPT !.total_tokens = f.total_tokens + tokens]
    IN  IF ~should_include_file(f, path)
        THEN [fmt |-> counted, out |-> <<>>]
        ELSE [fmt |-> counted,
              out |-> << Plain("Banner80", src),
                         Line("FileSection", path, tokens, <<>>, FALSE, src),
                         Plain("Banner80", src) >>
                      \o [i \in 1..Len(str_lines(contents)) |->
                            Line("Numbered", <<>>, i, str_lines(contents)[i],
                                 FALSE, src)]]

\* OutputFormatter::print_file_contents on the formatter f: the formatter
\* after the call and the lines written
file_contents(f, path, contents, src) ==
    IF ~should_include_file(f, path)
    THEN [fmt |-> f, out |-> <<>>]
    ELSE LET tokens == count_tokens(contents)
         IN  [fmt |-> [f EXCEPT !.total_tokens = f.total_tokens + tokens],
              out |-> << Plain("Banner80", src),
                         Line("FileSection", path, tokens, <<>>, FALSE, src),
                         Plain("Banner80", src) >>
                      \o NumberedLines(contents, src)]

fmt_print_file_contents ==
    /\ fcalls < MaxCalls
    /\ fcalls' = fcalls + 1
    /\ \E path \in FmtPaths, contents \in FmtContents :
         LET r == file_contents(fmt, path, contents, fcalls + 1)
         IN  /\ fmt' = r.fmt
             /\ stdout' = stdout \o r.out
    /\ UNCHANGED <<runVars, stderr, given, strip_comments, q>>

\* format_token_usage: the percentage, rounded to the nearest integer
format_token_usage(f, context_size) ==
    (2 * 100 * f.total_tokens + context_size) \div (2 * context_size)

\* print_summary: heading, banner, the total, the two context windows, the
\* configured filters
summary_lines(f, src) ==
    << Plain("SummaryHeading", src),
       Plain("Banner", src),
       Line("SummaryTotal", <<>>, f.total_tokens, <<>>, FALSE, src),
       Plain("ContextSizes", src),
       Line("Usage8K", <<>>, format_token_usage(f, 8192), <<>>, FALSE, src),
       Line("Usage32K", <<>>, format_token_usage(f, 32768), <<>>, FALSE, src) >>
    \o (IF IsSome(f.extensions)
        THEN << Line("FileExtensions", <<>>, Len(Unwrap(f.extensions)), <<>>,
                     FALSE, src) >>
        ELSE <<>>)
    \o (IF IsSome(f.excludes)
        THEN << Line("ExcludePatterns", <<>>, Len(Unwrap(f.excludes)), <<>>,
                     FALSE, src) >>
        ELSE <<>>)

print_summary ==
    /\ fcalls < MaxCalls
    /\ fcalls' = fcalls + 1
    /\ stdout' = stdout \o summary_lines(fmt, fcalls + 1)
    /\ UNCHANGED <<runVars, stderr, fmt, given, strip_comments, q>>

NextFmt ==
    \/ with_extensions
    \/ with_excludes
    \/ print_header
    \/ fmt_print_file_contents
    \/ print_summary

SpecFmt == InitFmt /\ [][NextFmt]_vars

----------------------------------------------------------------------------
(* Properties of the OutputFormatter *)

\* the sum of the token counts shown by the per-file sections among lines
RECURSIVE SectionTokens(_)
SectionTokens(lines) ==
    IF lines = <<>> THEN 0
    ELSE (IF Head(lines).kind = "FileSection" THEN Head(lines).num ELSE 0)
         + SectionTokens(Tail(lines))

\* C1: total_tokens equals the sum of the token counts of the per-file
\* sections printed, and every summary reports exactly the sum of the
\* sections printed before it.
C1_TotalIsSumOfSections ==
    /\ fmt.total_tokens = SectionTokens(stdout)
    /\ \A k \in 1..Len(stdout) :
          stdout[k].kind = "SummaryTotal" =>
              stdout[k].num = SectionTokens(SubSeq(stdout, 1, k - 1))

\* C1 witness: with a filter configured, two sections of different token
\* counts and then a summary of a positive total have been printed.
C1_Witness ==
    /\ IsSome(fmt.extensions) \/ IsSome(fmt.excludes)
    /\ \E a, b, k \in 1..Len(stdout) :
         /\ a < b /\ b < k
         /\ stdout[a].kind = "FileSection" /\ stdout[b].kind = "FileSection"
         /\ stdout[a].num # stdout[b].num
         /\ stdout[k].kind = "SummaryTotal" /\ stdout[k].num > 0

\* an invalid regular expression among the patterns
HasInvalid(patterns) ==
    \E i \in 1..Len(patterns) : ~IsSome(RegexNew(patterns[i]))

\* C7: an invalid pattern or exclude regex gives a user-visible error, the
\* traversal is never started, and no formatter is built with an invalid
\* exclude dropped from its filter set.
C7_InvalidRegexIsAnError ==
    /\ (\/ IsSome(argv.pattern) /\ ~IsSome(RegexNew(Unwrap(argv.pattern)))
        \/ IsSome(argv.excludes) /\ HasInvalid(Unwrap(argv.excludes)))
          => /\ pc \notin {"walk", "changes"}
             /\ seen = <<>>
             /\ pc = "exited" => exit_code # 0 /\ stderr # <<>>
    /\ (IsSome(given.excludes) /\ HasInvalid(Unwrap(given.excludes)))
          => /\ ~IsSome(fmt.excludes)
             /\ stderr # <<>>

----------------------------------------------------------------------------
(* The extension filter, as the two pipelines apply it *)

MaxPathLen == 4
PathChars == {"A", "R", "S", "r", "s", "."}
QueryPaths == UNION {[1..n -> PathChars] : n \in 1..MaxPathLen}
AllowedLists ==
    { None, Some(<< <<"r", "s">> >>), Some(<< <<"R", "S">>, <<"s">> >>) }

\* main and process_change: the allowed list is lower-cased when the
\* arguments are read, then `if let Some(exts)` guards file_extension_matches
extension_filter_of_main(path, allowed) ==
    IsSome(allowed) =>
        file_extension_matches(path, lowercase_all(Unwrap(allowed)))

\* the formatter: with_extensions, then should_include_file
extension_filter_of_formatter(path, allowed) ==
    should_include_file(
        [total_tokens |-> 0,
         extensions |-> IF IsSome(allowed)
                        THEN Some(lowercase_all(Unwrap(allowed))) ELSE None,
         excludes |-> None],
        path)

InitExt ==
    /\ q = <<>>
    /\ stdout = <<>>
    /\ stderr = <<>>
    /\ fmt = [total_tokens |-> 0, extensions |-> None, excludes |-> None]
    /\ given = [extensions |-> None, excludes |-> None]
    /\ fcalls = 0
    /\ strip_comments = FALSE
    /\ runIdle

\* one path is put to both filters
ExtensionQuery ==
    /\ q = <<>>
    /\ \E path \in QueryPaths, allowed \in AllowedLists :
         q' = << [path |-> path, allowed |-> allowed,
                  by_main |-> extension_filter_of_main(path, allowed),
                  by_formatter |->
                      extension_filter_of_formatter(path, allowed)] >>
    /\ UNCHANGED <<runVars, stdout, stderr, fmtVars>>

NextExt == ExtensionQuery

SpecExt == InitExt /\ [][NextExt]_vars

\* the allowed set holds the path's extension, compared without case
AllowsExtension(path, allowed) ==
    /\ IsSome(path_extension(path))
    /\ \E i \in 1..Len(allowed) :
          to_lowercase(allowed[i]) = to_lowercase(Unwrap(path_extension(path)))

\* C10: both implementations of the extension filter pass a path iff the
\* allowed set is unset or holds the path's extension, compared
\* case-insensitively; a path without extension never passes a set.
C10_ExtensionFilterIgnoresCase ==
    \A i \in 1..Len(q) :
        LET passes == \/ ~IsSome(q[i].allowed)
                      \/ AllowsExtension(q[i].path, Unwrap(q[i].allowed))
        IN  /\ q[i].by_main <=> passes
            /\ q[i].by_formatter <=> passes

----------------------------------------------------------------------------
(* CodeParser::remove_comments: from the reported ranges to the result *)

MaxSourceLen == 4
MaxRanges == 2
RangeChars == {"a", "b"}
RangeSources == UNION {[1..n -> RangeChars] : n \in 0..MaxSourceLen}

\* (start_byte, end_byte) of a node: half-open, 0-based, inside the source
ByteRanges(n) == {r \in (0..n) \X (0..n) : r[1] <= r[2]}
RangeLists(n) == UNION {[1..k -> ByteRanges(n)] : k \in 0..MaxRanges}

\* sort_by_key(|&(start, _)| start): a stable sort on the start byte
InsertByStart(sorted, r) ==
    LET k == Cardinality({i \in 1..Len(sorted) : sorted[i][1] <= r[1]})
    IN  SubSeq(sorted, 1, k) \o <<r>> \o SubSeq(sorted, k + 1, Len(sorted))

RECURSIVE sort_by_start(_)
sort_by_start(ranges) ==
    IF ranges = <<>> THEN <<>>
    ELSE InsertByStart(sort_by_start(SubSeq(ranges, 1, Len(ranges) - 1)),
                       ranges[Len(ranges)])

Max(a, b) == IF a >= b THEN a ELSE b

\* the loop over comment_ranges.iter().skip(1): `rest` is what is left of
\* the iterator, `current` the range being grown, `merged` the vector
RECURSIVE merge_loop_KeepsLastEnd(_, _, _)
merge_loop_KeepsLastEnd(rest, current, merged) ==
    IF rest = <<>> THEN Append(merged, current)
    ELSE IF rest[1][1] <= current[2]
         THEN merge_loop_KeepsLastEnd(Tail(rest),
                                      <<current[1], rest[1][2]>>, merged)
         ELSE merge_loop_KeepsLastEnd(Tail(rest), rest[1],
                                      Append(merged, current))

RECURSIVE merge_loop(_, _, _)
merge_loop(rest, current, merged) ==
    IF rest = <<>> THEN Append(merged, current)
    ELSE IF rest[1][1] <= current[2]
         THEN merge_loop(Tail(rest),
                         <<current[1], Max(current[2], rest[1][2])>>, merged)
         ELSE merge_loop(Tail(rest), rest[1], Append(merged, current))

merge_ranges(sorted) ==
    IF sorted = <<>> THEN <<>>
    ELSE merge_loop(Tail(sorted), sorted[1], <<>>)

\* the loop that builds `result`: source_code[last_end..start] is pushed for
\* each range, then source_code[last_end..]
RECURSIVE build_result(_, _, _)
build_result(source_code, ranges, last_end) ==
    IF ranges = <<>>
    THEN SubSeq(source_code, last_end + 1, Len(source_code))
    ELSE SubSeq(source_code, last_end + 1, ranges[1][1])
         \o build_result(source_code, Tail(ranges), ranges[1][2])

cut_comment_ranges(source_code, comment_ranges) ==
    build_result(source_code, merge_ranges(sort_by_start(comment_ranges)), 0)

\* one source and one list of reported ranges are put to the cutter
CutRanges ==
    /\ q = <<>>
    /\ \E source \in RangeSources :
         \E ranges \in RangeLists(Len(source)) :
            q' = << [source |-> source, ranges |-> ranges,
                     result |-> cut_comment_ranges(source, ranges)] >>
    /\ UNCHANGED <<runVars, stdout, stderr, fmtVars>>

NextRanges == CutRanges

SpecRanges == InitExt /\ [][NextRanges]_vars

\* byte p (0-based) of the source lies in one of the ranges
InComment(p, ranges) ==
    \E i \in 1..Len(ranges) : ranges[i][1] <= p /\ p < ranges[i][2]

RECURSIVE BytesOutside(_, _, _)
BytesOutside(source, ranges, p) ==
    IF p >= Len(source) THEN <<>>
    ELSE (IF InComment(p, ranges) THEN <<>> ELSE <<source[p + 1]>>)
         \o BytesOutside(source, ranges, p + 1)

\* C12: whatever ranges are reported (any order, overlapping, nested,
\* adjacent), the result is the sequence of the source's bytes that lie in
\* no range, in their original order.
C12_ResultIsBytesOutsideRanges ==
    \A i \in 1..Len(q) :
        q[i].result = BytesOutside(q[i].source, q[i].ranges, 0)

\* a nested range reported before the range around it, and bytes kept on
\* both sides
C12_Witness ==
    \E i \in 1..Len(q) :
        /\ q[i].ranges = << <<1, 2>>, <<0, 3>> >>
        /\ q[i].source = <<"a", "b", "a", "b">>
        /\ q[i].result = <<"b">>

----------------------------------------------------------------------------
(* SupportedLanguage and the comment nodes of a parse *)

Languages == {"Rust", "JavaScript", "Go"}

\* SupportedLanguage::from_str: Ok(lang) is Some(lang), Err(_) is None
from_str(s) ==
    LET l == to_lowercase(s)
    IN  IF l = <<"r","s">> \/ l = <<"r","u","s","t">> THEN Some("Rust")
        ELSE IF l = <<"j","s">>
                \/ l = <<"j","a","v","a","s","c","r","i","p","t">>
             THEN Some("JavaScript")
        ELSE IF l = <<"g","o">> THEN Some("Go")
        ELSE None

StartsAt(s, i, a, b) == i < Len(s) /\ s[i] = a /\ s[i + 1] = b

\* index of the '/' that closes the block comment whose text is read from
\* i on with `depth` openers pending, 0 when the comment is not closed.
\* Block comments nest in Rust and do not in JavaScript and Go.
RECURSIVE BlockEnd(_, _, _, _)
BlockEnd(lang, s, i, depth) ==
    IF i > Len(s) THEN 0
    ELSE IF StartsAt(s, i, "*", "/")
         THEN IF depth = 1 THEN i + 1 ELSE BlockEnd(lang, s, i + 2, depth - 1)
    ELSE IF lang = "Rust" /\ StartsAt(s, i, "/", "*")
         THEN BlockEnd(lang, s, i + 2, depth + 1)
    ELSE BlockEnd(lang, s, i + 1, depth)

\* index of the '/' that closes the JavaScript regex literal opened at i, 0
\* when the line ends first
RegexEnd(s, i) ==
    LET close == FirstIndexFrom(s, "/", i + 1)
        nl == FirstIndexFrom(s, "\n", i + 1)
    IN  IF close = 0 \/ (nl # 0 /\ nl < close) THEN 0 ELSE close

RECURSIVE comment_nodes_KeepsOpeningSlash(_, _, _, _)
comment_nodes_KeepsOpeningSlash(lang, s, i, value) ==
    IF i > Len(s) THEN <<>>
    ELSE IF StartsAt(s, i, "/", "/")
         THEN LET nl == FirstIndexFrom(s, "\n", i)
                  stop == IF nl = 0 THEN Len(s) ELSE nl - 1
              IN  << <<i - 1, stop>> >>
                  \o comment_nodes_KeepsOpeningSlash(lang, s, stop + 1, value)
    ELSE IF StartsAt(s, i, "/", "*") /\ BlockEnd(lang, s, i + 2, 1) # 0
         THEN LET stop == BlockEnd(lang, s, i + 2, 1)
              IN  << <<i, stop>> >>
                  \o comment_nodes_KeepsOpeningSlash(lang, s, stop + 1, value)
    ELSE IF lang = "JavaScript" /\ s[i] = "/" /\ ~value /\ RegexEnd(s, i) # 0
         THEN comment_nodes_KeepsOpeningSlash(lang, s, RegexEnd(s, i) + 1, TRUE)
    ELSE IF s[i] \in {"\n", " "}
         THEN comment_nodes_KeepsOpeningSlash(lang, s, i + 1, value)
    ELSE comment_nodes_KeepsOpeningSlash(lang, s, i + 1,
                                         s[i] \notin {"/", "*"})

\* the (start_byte, end_byte) of the comment nodes of the tree, in source
\* order. `value` tells that the token before i ends an expression, where
\* a '/' divides; elsewhere a '/' opens a regex literal in JavaScript. An
\* unclosed "/*" is no comment. The sources hold no quote characters.
RECURSIVE comment_nodes(_, _, _, _)
comment_nodes(lang, s, i, value) ==
    IF i > Len(s) THEN <<>>
    ELSE IF StartsAt(s, i, "/", "/")
         THEN LET nl == FirstIndexFrom(s, "\n", i)
                  stop == IF nl = 0 THEN Len(s) ELSE nl - 1
              IN  << <<i - 1, stop>> >>
                  \o comment_nodes(lang, s, stop + 1, value)
    ELSE IF StartsAt(s, i, "/", "*") /\ BlockEnd(lang, s, i + 2, 1) # 0
         THEN LET stop == BlockEnd(lang, s, i + 2, 1)
              IN  << <<i - 1, stop>> >>
                  \o comment_nodes(lang, s, stop + 1, value)
    ELSE IF lang = "JavaScript" /\ s[i] = "/" /\ ~value /\ RegexEnd(s, i) # 0
         THEN comment_nodes(lang, s, RegexEnd(s, i) + 1, TRUE)
    ELSE IF s[i] \in {"\n", " "}
         THEN comment_nodes(lang, s, i + 1, value)
    ELSE comment_nodes(lang, s, i + 1, s[i] \notin {"/", "*"})

\* CodeParser::remove_comments with the parser set to lang. `tree` tells
\* whether Parser::parse returned a tree, `query` whether Query::new
\* returned a query; each .expect panics on the other outcome.
remove_comments(lang, source_code, tree, query) ==
    IF ~tree \/ ~query
    THEN [panicked |-> TRUE, result |-> <<>>]
    ELSE [panicked |-> FALSE,
          result |-> cut_comment_ranges(source_code,
                         comment_nodes(lang, source_code, 1, FALSE))]

\* remove_comments when the parse and the query succeed
strip(source_code, lang) == remove_comments(lang, source_code, TRUE, TRUE).result

MaxCodeLen == 9
CodeChars == {"/", "*", "a"}
CodeSources == UNION {[1..n -> CodeChars] : n \in 0..MaxCodeLen}

\* a source is stripped, and what comes out is stripped again
StripTwice ==
    /\ q = <<>>
    /\ \E lang \in Languages, source \in CodeSources :
         q' = << [kind |-> "twice", lang |-> lang, source |-> source,
                  once |-> strip(source, lang),
                  twice |-> strip(strip(source, lang), lang)] >>
    /\ UNCHANGED <<runVars, stdout, stderr, fmtVars>>

----------------------------------------------------------------------------
(* From a path to its stripped text *)

ExtensionNames ==
    { <<"r","s">>, <<"R","S">>, <<"R","s">>, <<"j","s">>, <<"J","S">>,
      <<"p","y">>, <<"P","Y">>, <<"g","o">>, <<"G","o">>,
      <<"r","u","s","t">>, <<"j","a","v","a","s","c","r","i","p","t">>,
      <<"m","d">>, <<"x","y","z">>, <<"r">>, <<>> }

SampleCodes ==
    { <<"a", "/", "/", "a", "\n", "a">>,
      <<"/", "*", "a", "*", "/", "a">>,
      <<"a", "\n">> }

strip_by_extension_LeavesComments(path, code) == code

\* the text that is printed for `path` when comments are stripped:
\* Path::extension, SupportedLanguage::from_str, CodeParser::set_language
\* (which takes each of the three grammars) and remove_comments
strip_by_extension(path, code) ==
    IF IsSome(path_extension(path))
    THEN IF IsSome(from_str(Unwrap(path_extension(path))))
         THEN strip(code, Unwrap(from_str(Unwrap(path_extension(path)))))
         ELSE code
    ELSE code

\* a file named test.<extension> is stripped
StripByExtension ==
    /\ q = <<>>
    /\ \E ext \in ExtensionNames, code \in SampleCodes :
         LET path == <<"t", "e", "s", "t", ".">> \o ext
         IN  q' = << [kind |-> "by_extension", extension |-> ext,
                      lang |-> from_str(ext), code |-> code,
                      result |-> strip_by_extension(path, code)] >>
    /\ UNCHANGED <<runVars, stdout, stderr, fmtVars>>

\* Parser::parse returns no tree, or Query::new returns no query
StripFailure ==
    /\ q = <<>>
    /\ \E lang \in Languages, code \in SampleCodes, tree, query \in BOOLEAN :
         /\ ~(tree /\ query)
         /\ q' = << [kind |-> "failure", lang |-> lang, code |-> code,
                     tree |-> tree, query |-> query,
                     outcome |-> remove_comments(lang, code, tree, query)] >>
    /\ UNCHANGED <<runVars, stdout, stderr, fmtVars>>

NextStrip ==
    \/ StripTwice
    \/ StripByExtension
    \/ StripFailure

SpecStrip == InitExt /\ [][NextStrip]_vars

StrippedExtensions == { <<"r","s">>, <<"j","s">>, <<"p","y">>, <<"g","o">> }

\* C14: an extension resolves to a language iff it is rs, js, py or go in
\* any letter case; for every other extension the text is left as it is.
C14_ExactlyFourExtensionsResolve ==
    \A i \in 1..Len(q) :
        q[i].kind = "by_extension" =>
            /\ IsSome(q[i].lang) <=>
                   to_lowercase(q[i].extension) \in StrippedExtensions
            /\ ~IsSome(q[i].lang) => q[i].result = q[i].code

\* C15: when the parser returns no tree or the query cannot be built,
\* remove_comments does not abort and returns the source as it is.
C15_ParseFailureReturnsSource ==
    \A i \in 1..Len(q) :
        q[i].kind = "failure" =>
            /\ ~q[i].outcome.panicked
            /\ q[i].outcome.result = q[i].code

----------------------------------------------------------------------------
(* The formatter with its strip-comments flag *)

CommentedCodes ==
    { <<"a", "b", "/", "/", "a", "\n", "b">>,
      <<"/", "*", "a", "*", "/", "a", "b">>,
      <<"a", "b">> }
StripPaths == {P_rs, P_RS, P_md, <<"m", ".", "p", "y">>}

\* with_strip_comments: the flag of the formatter state
with_strip_comments ==
    /\ fcalls = 0
    /\ \E flag \in BOOLEAN : strip_comments' = flag
    /\ UNCHANGED <<runVars, stdout, stderr, fmt, given, fcalls, q>>

\* the text a per-file section is made of: stripped when the flag is set
processed_contents(flag, path, contents) ==
    IF flag THEN strip_by_extension(path, contents) ELSE contents

\* print_file_contents of a formatter that has the flag: the text is
\* processed, then counted and printed; q keeps what was handed in
print_processed_file_contents ==
    /\ fcalls < MaxCalls
    /\ fcalls' = fcalls + 1
    /\ \E path \in StripPaths, contents \in CommentedCodes :
         LET r == file_contents(fmt, path,
                      processed_contents(strip_comments, path, contents),
                      fcalls + 1)
         IN  /\ fmt' = r.fmt
             /\ stdout' = stdout \o r.out
             /\ q' = Append(q, [path |-> path, contents |-> contents,
                                flag |-> strip_comments,
                                call |-> fcalls + 1])
    /\ UNCHANGED <<runVars, stderr, given, strip_comments>>

NextFmtStrip ==
    \/ with_extensions
    \/ with_strip_comments
    \/ print_processed_file_contents
    \/ print_summary

SpecFmtStrip == InitFmt /\ [][NextFmtStrip]_vars

\* the text the section of the k-th file is to be made of
SectionText(k) ==
    LET ext == path_extension(q[k].path)
    IN  IF q[k].flag /\ IsSome(ext) /\ IsSome(from_str(Unwrap(ext)))
        THEN strip(q[k].contents, Unwrap(from_str(Unwrap(ext))))
        ELSE q[k].contents

WrittenBy(call, kind) ==
    SelectSeq(stdout, LAMBDA l : l.src = call /\ l.kind = kind)

RECURSIVE TokensOfSections(_)
TokensOfSections(k) ==
    IF k = 0 THEN 0
    ELSE TokensOfSections(k - 1)
         + (IF should_include_file(fmt, q[k].path)
            THEN count_tokens(SectionText(k)) ELSE 0)

----------------------------------------------------------------------------
(* OutputFormatter::print_directory_structure *)

\* the characters of the paths below, in the order of their bytes
ByteOrder == <<"-", ".", "/", "a", "b", "d", "e", "m", "n", "o", "r", "s",
               "t", "u", "x">>
ByteOf(c) == CHOOSE i \in 1..Len(ByteOrder) : ByteOrder[i] = c

\* Ord for String: byte by byte, a proper prefix comes first
RECURSIVE StringLess(_, _)
StringLess(x, y) ==
    IF y = <<>> THEN FALSE
    ELSE IF x = <<>> THEN TRUE
    ELSE IF x[1] # y[1] THEN ByteOf(x[1]) < ByteOf(y[1])
    ELSE StringLess(Tail(x), Tail(y))

\* the keys of a BTreeMap<String, _> in the order iter() yields them
RECURSIVE SortedKeys(_)
SortedKeys(keys) ==
    IF keys = {} THEN <<>>
    ELSE LET least == CHOOSE k \in keys :
                          \A other \in keys \ {k} : StringLess(k, other)
         IN  <<least>> \o SortedKeys(keys \ {least})

\* str::split('/')
RECURSIVE SplitFrom(_, _)
SplitFrom(s, start) ==
    LET slash == FirstIndexFrom(s, "/", start)
    IN  IF slash = 0 THEN << SubSeq(s, start, Len(s)) >>
        ELSE << SubSeq(s, start, slash - 1) >> \o SplitFrom(s, slash + 1)

split_slash(s) == SplitFrom(s, 1)

starts_with(s, prefix) ==
    Len(s) >= Len(prefix) /\ SubSeq(s, 1, Len(prefix)) = prefix

\* the files and the empty directory a root may hold, relative to the root
TreeFiles ==
    { <<"a", ".", "r", "s">>,
      <<"b", ".", "m", "d">>,
      <<"s", ".", "r", "s">>,
      <<"s", "/", "m", ".", "r", "s">>,
      <<"s", "/", "n", ".", "m", "d">>,
      <<"s", "/", "t", "/", "u", ".", "r", "s">>,
      <<"s", "-", "o", "/", "x", ".", "r", "s">> }
EmptyDirs == { <<"e">> }
RootPath == <<"r", "/">>

\* the directories above a path
Ancestors(path) ==
    { SubSeq(path, 1, i - 1) : i \in {j \in 1..Len(path) : path[j] = "/"} }

\* a root directory: what the walker yields below it, as relative path and
\* is-directory flag
DirEntries(files, dirs) ==
    { [path |-> f, is_dir |-> FALSE] : f \in files }
    \cup { [path |-> d, is_dir |-> TRUE] :
              d \in dirs \cup UNION {Ancestors(f) : f \in files} }

FileTrees ==
    { DirEntries(files, dirs) : files \in SUBSET TreeFiles,
                                dirs \in SUBSET EmptyDirs }

\* first pass: the entries that are put into dir_map
dir_map_of(f, entries) ==
    { e \in entries : e.is_dir \/ should_include_file(f, RootPath \o e.path) }

\* is_last_at_depth after the while loop and the truncate
adjust(is_last_at_depth, depth) ==
    [i \in 1..depth |->
        IF i <= Len(is_last_at_depth) THEN is_last_at_depth[i] ELSE FALSE]

\* the prefix before the connector: nothing for index 0
prefix_of(is_last_at_depth, depth) ==
    [i \in 1..(IF depth >= 2 THEN depth - 2 ELSE 0) |->
        IF is_last_at_depth[i + 1] THEN "    " ELSE "|   "]

\* second pass: the lines for keys[k..], is_last_at_depth being what the
\* entry before left. The fragments "    ", "|   ", "+-- " and "|-- " stand
\* for the blank, bar, corner and tee fragments of the source.
RECURSIVE tree_rows_from(_, _, _, _)
tree_rows_from(dir_map, keys, k, is_last_at_depth) ==
    IF k > Len(keys) THEN <<>>
    ELSE LET path_str == keys[k]
             components == split_slash(path_str)
             depth == Len(components)
             adjusted == adjust(is_last_at_depth, depth)
             is_last ==
                 IF k < Len(keys)
                 THEN \/ Len(split_slash(keys[k + 1])) <= depth
                      \/ ~starts_with(keys[k + 1], path_str \o <<"/">>)
                 ELSE TRUE
             marked == [adjusted EXCEPT ![depth] = is_last]
             row == [path |-> path_str,
                     name |-> components[depth],
                     is_dir |-> (CHOOSE e \in dir_map : e.path = path_str).is_dir,
                     depth |-> depth,
                     prefix |-> prefix_of(marked, depth)
                                \o << IF marked[depth] THEN "+-- " ELSE "|-- " >>]
         IN  <<row>> \o tree_rows_from(dir_map, keys, k + 1, marked)

tree_rows(f, entries) ==
    LET dir_map == dir_map_of(f, entries)
    IN  tree_rows_from(dir_map, SortedKeys({e.path : e \in dir_map}), 1, <<>>)

\* print_directory_structure on one of the roots: heading, banner, then
\* one line per key of dir_map; q keeps the directory that was walked and
\* the rows printed
print_directory_structure_of(roots) ==
    /\ fcalls < MaxCalls
    /\ q = <<>>
    /\ fcalls' = fcalls + 1
    /\ \E entries \in roots :
         LET rows == tree_rows(fmt, entries)
         IN  /\ stdout' = stdout
                   \o << Plain("Blank", fcalls + 1),
                         Plain("TreeHeading", fcalls + 1),
                         Plain("Banner", fcalls + 1) >>
                   \o [i \in 1..Len(rows) |->
                         Line("TreeEntry", rows[i].name, rows[i].depth,
                              rows[i].prefix, rows[i].is_dir, fcalls + 1)]
             /\ q' = << [entries |-> entries, rows |-> rows] >>
    /\ UNCHANGED <<runVars, stderr, fmt, given, strip_comments>>

print_directory_structure == print_directory_structure_of(FileTrees)

NextTree ==
    \/ with_extensions
    \/ with_excludes
    \/ print_directory_structure

SpecTree == InitFmt /\ [][NextTree]_vars

\* the directory a relative path lies in, <<>> for the root
ParentOf(path) ==
    IF LastIndexOf(path, "/") = 0 THEN <<>>
    ELSE SubSeq(path, 1, LastIndexOf(path, "/") - 1)

IsUnder(path, dir) == starts_with(path, dir \o <<"/">>)

Connector(row) == row.prefix[Len(row.prefix)]

\* C16: a line has the corner connector iff no sibling (an entry with the
\* same parent directory) is printed after it, and the tee connector iff
\* one is.
C16_CornerIffLastSibling ==
    \A t \in 1..Len(q) :
        LET rows == q[t].rows
        IN  \A i \in 1..Len(rows) :
                LET followed == \E j \in (i + 1)..Len(rows) :
                                   ParentOf(rows[j].path) = ParentOf(rows[i].path)
                IN  /\ Connector(rows[i]) = "+-- " <=> ~followed
                    /\ Connector(rows[i]) = "|-- " <=> followed

\* C17: a directory has a line iff a file below it, at any depth, passes
\* the filters.
C17_DirectoryIffIncludedDescendant ==
    \A t \in 1..Len(q) :
        \A d \in {e \in q[t].entries : e.is_dir} :
            (\E i \in 1..Len(q[t].rows) : q[t].rows[i].path = d.path)
            <=> \E e \in q[t].entries :
                   /\ ~e.is_dir
                   /\ IsUnder(e.path, d.path)
                   /\ should_include_file(fmt, RootPath \o e.path)

\* C18: the tree is printed depth first: the lines of what lies below a
\* directory follow its line before any other entry, and the entries of one
\* directory come in the order of their names.
C18_DepthFirstInNameOrder ==
    \A t \in 1..Len(q) :
        LET rows == q[t].rows
        IN  /\ \A i, j, l \in 1..Len(rows) :
                  (i < j /\ j < l /\ rows[i].is_dir
                         /\ IsUnder(rows[l].path, rows[i].path))
                      => IsUnder(rows[j].path, rows[i].path)
            /\ \A i, j \in 1..Len(rows) :
                  (i < j /\ ParentOf(rows[i].path) = ParentOf(rows[j].path))
                      => StringLess(rows[i].name, rows[j].name)

----------------------------------------------------------------------------
(* print_file_contents_with_context as a function of the text, the context *)
(* and the build                                                            *)

MaxFileLen == 5
MaxContext == 3
FileChars == {"a", "b", "\n"}
FileTexts == UNION {[1..n -> FileChars] : n \in 0..MaxFileLen}
ContextCounts == (0..MaxContext) \cup {UsizeMax - 1, UsizeMax}

\* the loop over the lines from index i on. With overflow checks (the dev
\* profile) an overflowing i + context_lines + 1 panics after the
\* "Match at line" line; without them (the release profile) it wraps.
RECURSIVE context_report_from(_, _, _, _, _, _)
context_report_from(lines, i, regex, context_lines, overflow_checks, src) ==
    IF i >= Len(lines) THEN [panicked |-> FALSE, out |-> <<>>]
    ELSE IF ~is_match(regex, lines[i + 1])
    THEN context_report_from(lines, i + 1, regex, context_lines,
                             overflow_checks, src)
    ELSE IF overflow_checks /\ window_end(i, context_lines).overflow
    THEN [panicked |-> TRUE,
          out |-> << Line("MatchAt", <<>>, i + 1, <<>>, FALSE, src) >>]
    ELSE LET rest == context_report_from(lines, i + 1, regex, context_lines,
                                         overflow_checks, src)
         IN  [panicked |-> rest.panicked,
              out |-> MatchBlock(lines, i, context_lines, src) \o rest.out]

\* one text is searched for the regex a
ContextQuery ==
    /\ q = <<>>
    /\ \E contents \in FileTexts, context_lines \in ContextCounts,
          overflow_checks \in BOOLEAN :
         q' = << [contents |-> contents, context_lines |-> context_lines,
                  overflow_checks |-> overflow_checks,
                  report |-> context_report_from(str_lines(contents), 0,
                                 <<"a">>, context_lines, overflow_checks, 1)] >>
    /\ UNCHANGED <<runVars, stdout, stderr, fmtVars>>

NextContext == ContextQuery

SpecContext == InitExt /\ [][NextContext]_vars

\* the context lines of the block that opens at position p of out
RECURSIVE ContextLinesAt(_, _)
ContextLinesAt(out, p) ==
    IF p > Len(out) \/ out[p].kind # "Context" THEN <<>>
    ELSE <<out[p]>> \o ContextLinesAt(out, p + 1)

\* C19: for a match on line m of a file of n lines with context c, the
\* block holds exactly the lines max(1, m - c) .. min(n, m + c) with their
\* numbers and texts, only line m is marked, and nothing aborts.
C19_WindowIsClampedToFile ==
    \A t \in 1..Len(q) :
        LET lines == str_lines(q[t].contents)
            n == Len(lines)
            c == q[t].context_lines
            out == q[t].report.out
        IN  /\ ~q[t].report.panicked
            /\ \A m \in 1..n :
                  is_match(<<"a">>, lines[m]) =>
                      LET lo == IF c >= m - 1 THEN 1 ELSE m - c
                          hi == IF c >= n - m THEN n ELSE m + c
                      IN  \E p \in 1..Len(out) :
                             /\ out[p].kind = "MatchAt" /\ out[p].num = m
                             /\ p < Len(out) /\ out[p + 1].kind = "Fence"
                             /\ ContextLinesAt(out, p + 2)
                                  = [k \in 1..(hi - lo + 1) |->
                                        Line("Context", <<>>, lo + k - 1,
                                             lines[lo + k - 1],
                                             lo + k - 1 = m, 1)]

----------------------------------------------------------------------------
(* print_file_content as a function of the blob *)

MaxBlobLen == 4
BlobBytes == {"h", "\n", "0xFF"}
BlobTexts == UNION {[1..n -> BlobBytes] : n \in 0..MaxBlobLen}

\* one blob is printed under a prefix, no pattern given
BlobQuery ==
    /\ q = <<>>
    /\ \E content \in BlobTexts, prefix \in {"+", "-"} :
         q' = << [content |-> content, prefix |-> prefix,
                  out |-> BlobLinesFrom(content, 1, prefix, None, 1)] >>
    /\ UNCHANGED <<runVars, stdout, stderr, fmtVars>>

NextBlob == BlobQuery

SpecBlob == InitExt /\ [][NextBlob]_vars

\* the positions of the line feeds of a blob
LineFeeds(content) == {i \in 1..Len(content) : content[i] = "\n"}

\* position of the k-th line feed; 0 for k = 0, one past the end when the
\* blob has fewer
LineFeed(content, k) ==
    IF k = 0 THEN 0
    ELSE IF k > Cardinality(LineFeeds(content)) THEN Len(content) + 1
    ELSE CHOOSE p \in LineFeeds(content) :
             Cardinality({x \in LineFeeds(content) : x < p}) = k - 1

\* the lines of a blob: what each line feed ends, and what follows the last
\* line feed when that is not empty
LinesOfBlob(content) ==
    LET feeds == Cardinality(LineFeeds(content))
        open == IF content # <<>> /\ content[Len(content)] # "\n"
                THEN 1 ELSE 0
    IN  [k \in 1..(feeds + open) |->
            SubSeq(content, LineFeed(content, k - 1) + 1,
                   LineFeed(content, k) - 1)]

\* C20: without a pattern the body of a diff block is the blob's lines, in
\* order, each once under the prefix; a line that is not UTF-8 is written
\* as the prefix and the hex of its bytes, and the lines after it follow.
C20_BodyIsTheBlobLines ==
    \A t \in 1..Len(q) :
        LET lines == LinesOfBlob(q[t].content)
        IN  q[t].out =
              [k \in 1..Len(lines) |->
                 IF from_utf8_ok(lines[k])
                 THEN Line("DiffLine", <<>>, 0, <<q[t].prefix>> \o lines[k],
                           FALSE, 1)
                 ELSE Line("NonUtf8", <<>>, 0,
                           <<q[t].prefix>> \o hex_encode(lines[k]), FALSE, 1)]

\* a removed blob whose first line is not UTF-8: that line in hex, then the
\* empty second line and the third
C20_Witness ==
    \E t \in 1..Len(q) :
        /\ q[t].content = <<"0xFF", "\n", "\n", "h">>
        /\ q[t].prefix = "-"
        /\ Len(q[t].out) = 3
        /\ q[t].out[1].kind = "NonUtf8"
        /\ q[t].out[1].text = <<"-", "f", "f">>
        /\ q[t].out[3].text = <<"-", "h">>

----------------------------------------------------------------------------
(* The formatter, all its calls taken together *)

\* two roots: one file and an empty directory; a directory with a file
\* of each kind and a file beside it
FrameTrees ==
    { DirEntries({<<"a", ".", "r", "s">>}, {<<"e">>}),
      DirEntries({<<"s", "/", "m", ".", "r", "s">>,
                  <<"s", "/", "n", ".", "m", "d">>,
                  <<"b", ".", "m", "d">>}, {}) }

frame_print_directory_structure == print_directory_structure_of(FrameTrees)

NextFrame ==
    \/ with_extensions
    \/ with_excludes
    \/ print_header
    \/ frame_print_directory_structure
    \/ fmt_print_file_contents
    \/ print_summary

SpecFrame == InitFmt /\ [][NextFrame]_vars

\* the step is a print_file_contents call for a path the filters reject
SkippedFileCall ==
    /\ fcalls' = fcalls + 1
    /\ \E path \in FmtPaths, contents \in FmtContents :
          /\ ~should_include_file(fmt, path)
          /\ fmt' = file_contents(fmt, path, contents, fcalls + 1).fmt
          /\ stdout' = stdout
                 \o file_contents(fmt, path, contents, fcalls + 1).out

\* C21: the token total starts at 0 and never decreases; print_header,
\* print_directory_structure and print_summary (which reads it through
\* format_token_usage) leave it as it is; a print_file_contents call for a
\* path that fails should_include_file leaves it as it is and prints
\* nothing; it changes only in a step that prints a per-file section, by
\* the count that section shows.
C21_TotalChangesOnlyByAccumulation ==
    /\ fmt.total_tokens = 0
    /\ [][ /\ fmt'.total_tokens >= fmt.total_tokens
           /\ (print_header \/ frame_print_directory_structure
                             \/ print_summary)
                 => fmt'.total_tokens = fmt.total_tokens
           /\ SkippedFileCall
                 => fmt'.total_tokens = fmt.total_tokens /\ stdout' = stdout
           /\ fmt'.total_tokens # fmt.total_tokens
                 => /\ fmt_print_file_contents
                    /\ Len(stdout') >= Len(stdout) + 3
                    /\ stdout'[Len(stdout) + 2].kind = "FileSection"
                    /\ stdout'[Len(stdout) + 2].num
                           = fmt'.total_tokens - fmt.total_tokens
         ]_vars

\* a section has been counted, a later call for a filtered-out path has
\* printed nothing, and a directory tree has been printed
C21_Witness ==
    /\ fmt.total_tokens > 0
    /\ IsSome(fmt.extensions)
    /\ \E call \in 1..fcalls : \A k \in 1..Len(stdout) : stdout[k].src # call
    /\ \E k \in 1..Len(stdout) : stdout[k].kind = "TreeHeading"

----------------------------------------------------------------------------
(* The loop of print_file_content, one iteration at a time.  q holds the   *)
(* running call: the blob, the zero-based offset start, the last slice     *)
(* content[from..to] taken, the lines printed, and whether the loop is     *)
(* left.                                                                    *)

loop_continues_AtEnd(start, content) == start <= Len(content)

\* while start < content.len()
loop_continues(start, content) == start < Len(content)

\* content[start..].iter().position(|&b| b == b'\n')
\*     .map_or(content.len(), |i| start + i)
line_end(content, start) ==
    IF FirstIndexFrom(content, "\n", start + 1) = 0 THEN Len(content)
    ELSE FirstIndexFrom(content, "\n", start + 1) - 1

\* print_file_content is entered with the bytes of the object
LoopEnter ==
    /\ q = <<>>
    /\ \E content \in BlobTexts :
         q' = << [content |-> content, start |-> 0, from |-> 0, to |-> 0,
                  out |-> <<>>, done |-> FALSE] >>
    /\ UNCHANGED <<runVars, stdout, stderr, fmtVars>>

\* one pass through the body of the loop, no pattern given
LoopIteration ==
    /\ q # <<>>
    /\ ~q[1].done
    /\ loop_continues(q[1].start, q[1].content)
    /\ LET content == q[1].content
           start == q[1].start
           end == line_end(content, start)
           line == SubSeq(content, start + 1, end)
           printed == IF from_utf8_ok(line)
                      THEN Line("DiffLine", <<>>, 0, <<"+">> \o line, FALSE, 1)
                      ELSE Line("NonUtf8", <<>>, 0,
                                <<"+">> \o hex_encode(line), FALSE, 1)
       IN  q' = << [q[1] EXCEPT !.start = end + 1, !.from = start,
                                !.to = end, !.out = Append(@, printed)] >>
    /\ UNCHANGED <<runVars, stdout, stderr, fmtVars>>

\* the condition of the loop fails: Ok(())
LoopExit ==
    /\ q # <<>>
    /\ ~q[1].done
    /\ ~loop_continues(q[1].start, q[1].content)
    /\ q' = << [q[1] EXCEPT !.done = TRUE] >>
    /\ UNCHANGED <<runVars, stdout, stderr, fmtVars>>

NextLoop ==
    \/ LoopEnter
    \/ LoopIteration
    \/ LoopExit

\* the function runs on: a step that can be taken is taken
SpecLoop == InitExt /\ [][NextLoop]_vars /\ WF_vars(NextLoop)

\* C22: the loop is left for every blob; each iteration moves start
\* strictly forward and slices inside the content; when the loop is left,
\* one line has been printed per line of the blob, a final line feed
\* giving no further, empty line.
C22_LoopTerminates ==
    /\ <>(q # <<>> /\ q[1].done)
    /\ [][ (q # <<>> /\ ~q[1].done) =>
              \/ /\ q'[1].done
                 /\ q'[1].start = q[1].start
                 /\ q'[1].out = q[1].out
              \/ /\ ~q'[1].done
                 /\ q'[1].start > q[1].start
                 /\ q'[1].from = q[1].start
                 /\ q'[1].from <= q'[1].to
                 /\ q'[1].to <= Len(q[1].content)
         ]_vars
    /\ [](q # <<>> /\ q[1].done =>
              /\ Len(q[1].out) = Len(LinesOfBlob(q[1].content))
              /\ q[1].out = BlobLinesFrom(q[1].content, 1, "+", None, 1))

\* the loop has been left on a blob with two line feeds in a row and one at
\* its end: three lines, the last of them not empty
C22_Witness ==
    /\ q # <<>>
    /\ q[1].done
    /\ q[1].content = <<"\n", "\n", "h", "\n">>
    /\ Len(q[1].out) = 3
    /\ q[1].out[3].text = <<"+", "h">>

----------------------------------------------------------------------------
(* The fences of diff mode *)

\* C23: every opening diff fence on stdout is followed by its closing
\* fence with nothing but lines of the blob between them, so before any
\* output of the next record, also when the blob cannot be read.
C23_EveryDiffFenceIsClosed ==
    DiffMode =>
        \A k \in 1..Len(stdout) :
            stdout[k].kind = "FenceDiff" =>
                \E j \in (k + 1)..Len(stdout) :
                    /\ stdout[j].kind = "Fence"
                    /\ \A m \in (k + 1)..(j - 1) :
                          stdout[m].kind \in {"DiffLine", "NonUtf8"}

====
